---------------------------- MODULE Spec2Model ----------------------------
(***************************************************************************)
(* Storefront backend (api/src/index.ts, api/src/auth.ts, prisma seed).    *)
(*                                                                         *)
(* The datastore is the only shared resource.  Every `await` of a handler  *)
(* is a point where other handlers may run, so a handler is modelled as    *)
(* one action per datastore statement it awaits; the synchronous code      *)
(* between two awaits belongs to the action of the statement before it.    *)
(*                                                                         *)
(* Text values on which the code computes (toLowerCase, makeSlug) are      *)
(* sequences of one-character strings.  An optional value is a sequence    *)
(* of length 0 (null / undefined) or 1.                                    *)
(***************************************************************************)
EXTENDS Integers, Sequences, FiniteSets, TLC

(***************************************************************************)
(* Bounds of the model.                                                    *)
(***************************************************************************)
MaxCheckouts == 2  \* checkout requests in one run
InitStock == 2     \* stock of every product in the initial state
MaxAdminOps == 1   \* admin writes in one run
MaxCatalog == 10   \* products in the catalog that is listed
MaxPage == 2       \* largest page asked for

None == <<>>
Some(v) == <<v>>

Max(a, b) == IF a >= b THEN a ELSE b
Min(a, b) == IF a <= b THEN a ELSE b

RECURSIVE SeqSum(_)
SeqSum(s) == IF s = <<>> THEN 0 ELSE Head(s) + SeqSum(Tail(s))

(***************************************************************************)
(* Text: String.prototype.toLowerCase and makeSlug.                        *)
(***************************************************************************)
LowerChar(c) ==
    CASE c = "A" -> "a" [] c = "B" -> "b" [] c = "C" -> "c"
      [] c = "T" -> "t" [] c = "X" -> "x" [] OTHER -> c

toLowerCase(s) == [i \in 1..Len(s) |-> LowerChar(s[i])]

IsSlugChar(c) == c \in {"a", "b", "c", "e", "p", "t", "x", "0", "1"}

RECURSIVE CollapseRuns(_, _)
\* s.replace(/[^a-z0-9]+/g, '-'): every maximal run of other characters
\* becomes one '-'.  inRun: the previous character belonged to such a run.
CollapseRuns(s, inRun) ==
    IF s = <<>> THEN <<>>
    ELSE IF IsSlugChar(Head(s)) THEN <<Head(s)>> \o CollapseRuns(Tail(s), FALSE)
    ELSE IF inRun THEN CollapseRuns(Tail(s), TRUE)
    ELSE <<"-">> \o CollapseRuns(Tail(s), TRUE)

\* .replace(/(^-|-$)/g, ''): one leading and one trailing '-' are removed.
TrimDashes(s) ==
    LET a == IF s # <<>> /\ Head(s) = "-" THEN Tail(s) ELSE s
    IN  IF a # <<>> /\ a[Len(a)] = "-" THEN SubSeq(a, 1, Len(a) - 1) ELSE a

makeSlug(s) == TrimDashes(CollapseRuns(toLowerCase(s), FALSE))

(***************************************************************************)
(* Catalog data of the initial state (prisma seed).                        *)
(***************************************************************************)
ProductIds == {"p1", "p2"}

Categories ==
    { [id |-> "c1", name |-> <<"C", "a", "p", "s">>, slug |-> <<"c", "a", "p", "s">>],
      [id |-> "c2", name |-> <<"T", "e", "e", "s">>, slug |-> <<"t", "e", "e", "s">>] }

SeedProducts ==
    [ p1 |-> [id |-> "p1", name |-> <<"T", "e", "e">>, slug |-> <<"t", "e", "e">>,
              description |-> <<"a">>, priceCents |-> 1999,
              imageUrl |-> Some(<<"t">>), stock |-> InitStock, categoryId |-> "c2",
              createdAt |-> 1],
      p2 |-> [id |-> "p2", name |-> <<"C", "a", "p">>, slug |-> <<"c", "a", "p">>,
              description |-> <<"b">>, priceCents |-> 1499,
              imageUrl |-> Some(<<"c">>), stock |-> InitStock, categoryId |-> "c1",
              createdAt |-> 2] ]

VARIABLES
    products,     \* Product table: id -> row, for the rows that exist
    orders,       \* Order table (committed rows)
    orderItems,   \* OrderItem table (committed rows)
    pc,           \* per checkout request: where its handler stands
    body,         \* per checkout request: req.body = [items, email]
    map,          \* per checkout request: the products read for validation
    totalCents,   \* per checkout request: the total computed from map
    tx,           \* per checkout request: the writes of its open transaction
    resp,         \* per checkout request: the response sent
    reqNo,        \* per checkout request: its number in arrival order
    started,      \* checkout requests received so far
    adminOps,     \* admin writes so far
    adminReq,     \* the last admin write request
    adminResp,    \* its response
    users,        \* User table
    authPc,       \* per client: where its register handler stands
    authReq,      \* per client: its last auth request
    authResp,     \* per client: the response to it
    loginCase,    \* per client: what its last login attempt was
    cookie,       \* per client: the `auth` cookie it holds
    listPc,       \* the listing request: where its handler stands
    listReq,      \* the listing request: its query parameters
    listTotal,    \* the listing request: the result of count
    listItems,    \* the listing request: the result of findMany
    listResp      \* the listing request: the response

shopVars == <<products, orders, orderItems, pc, body, map, totalCents, tx, resp,
              reqNo, started, adminOps, adminReq, adminResp>>
authVars == <<users, authPc, authReq, authResp, loginCase, cookie>>
listVars == <<listPc, listReq, listTotal, listItems, listResp>>
vars == <<shopVars, authVars, listVars>>

\* Two invocations of the checkout handler may overlap; an invocation that
\* has responded makes room for the next request.
Req == {1, 2}

\* Request bodies: carts of at most two lines over the given product ids.
Quantities == {0, 1, 2}
Lines(ids, quantities) == [productId : ids, quantity : quantities]
\* the carts of at most two lines
CartsOver(L) == {<<>>} \cup {<<l>> : l \in L} \cup {<<l1, l2>> : l1, l2 \in L}
GuestEmail == Some(<<"A", "@", "x">>)
BodiesOf(carts, emails) == [items : carts, email : emails]
\* overlapping checkouts order one or two of p1, with or without one of p2
ConcBodies ==
    BodiesOf(CartsOver(Lines({"p1"}, {1, 2}) \cup Lines({"p2"}, {1})), {GuestEmail})
SeqBodies ==
    BodiesOf(CartsOver(Lines(ProductIds, Quantities)), {None, Some(<<>>), GuestEmail})
\* "p0" is the id of no product
AdminRunBodies ==
    BodiesOf(CartsOver(Lines({"p1"}, Quantities) \cup Lines({"p0"}, {1})), {GuestEmail})

NoBody == [items |-> <<>>, email |-> None]
NoStock == [p \in {} |-> 0]
NoTx == [order |-> {}, items |-> {}, stock |-> NoStock, idx |-> 0]
\* line: the cart line a validation error is about (it is not sent)
NoResp ==
    [status |-> 0, error |-> "", arg |-> <<>>, orderId |-> 0, totalCents |-> 0, line |-> 0]
NoMap == [p \in {} |-> 0]

TxPcs == {"txOrder", "txItem", "txStock", "txCommit"}
FreePcs == {"idle", "done"}


(***************************************************************************)
(* POST /api/v1/checkout                                                   *)
(***************************************************************************)
Response(status, error, arg) ==
    [status |-> status, error |-> error, arg |-> arg, orderId |-> 0, totalCents |-> 0,
     line |-> 0]
LineResponse(k, error, arg) == [Response(400, error, arg) EXCEPT !.line = k]

\* prisma.product.findMany({ where: { id: { in: ids } } }) and new Map(...)
FindProducts(ids) == [p \in (ids \cap DOMAIN products) |-> products[p]]

CartIds(items) == {items[k].productId : k \in 1..Len(items)}

\* Variant: only the line k is checked.
ValidateFirstLineOnly(items, m, k) ==
    IF k > Len(items) THEN NoResp
    ELSE LET i == items[k] IN
         IF i.productId \notin DOMAIN m
           THEN LineResponse(k, "Product not found: ", <<i.productId>>)
         ELSE IF i.quantity < 1
           THEN LineResponse(k, "Invalid quantity", <<>>)
         ELSE IF m[i.productId].stock < i.quantity
           THEN LineResponse(k, "Not enough stock for ", m[i.productId].name)
         ELSE NoResp

RECURSIVE ValidateFrom(_, _, _)
\* the validation loop from line k on: the response of the first failing
\* check, or NoResp when every remaining line passes
ValidateFrom(items, m, k) ==
    IF k > Len(items) THEN NoResp
    ELSE LET i == items[k] IN
         IF i.productId \notin DOMAIN m
           THEN LineResponse(k, "Product not found: ", <<i.productId>>)
         ELSE IF i.quantity < 1
           THEN LineResponse(k, "Invalid quantity", <<>>)
         ELSE IF m[i.productId].stock < i.quantity
           THEN LineResponse(k, "Not enough stock for ", m[i.productId].name)
         ELSE ValidateFrom(items, m, k + 1)

Validate(items, m) == ValidateFrom(items, m, 1)

\* items.reduce((sum, i) => sum + map.get(i.productId)!.priceCents * i.quantity, 0)
TotalCents(items, m) ==
    SeqSum([k \in 1..Len(items) |-> m[items[k].productId].priceCents * items[k].quantity])

\* userEmail: email?.toLowerCase() || null
UserEmail(email) ==
    IF email = None \/ email[1] = <<>> THEN None ELSE Some(toLowerCase(email[1]))

\* Variant: the price is read again from the table.
LinePriceLive(p) == products[p.id].priceCents

\* priceCents of an OrderItem: p.priceCents, p being the row of the Map
LinePrice(p) == p.priceCents

\* Variant: data: { stock: p.stock - i.quantity }, from the row of the Map.
StockFromSnapshot(current, p, quantity) == p.stock - quantity

\* data: { stock: { decrement: i.quantity } } on the current value of the row
\* p.id
StockDecremented(current, p, quantity) == current - quantity

\* Variant: the writes are not undone when the callback throws.
TxOutcomeNoRollback(t, returned) == t

\* prisma.$transaction: the writes of the callback persist when it returns,
\* none of them when it throws
TxOutcome(t, returned) == IF returned THEN t ELSE NoTx

\* the row lock an UPDATE takes until the end of its transaction
HoldsLock(r, p) == p \in DOMAIN tx[r].stock
\* the reference a pending OrderItem holds on its product row
HoldsRef(r, p) == \E it \in tx[r].items : it.productId = p

\* the tables after the transaction t ended with the writes w
Persist(w) ==
    /\ orders' = orders \cup w.order
    /\ orderItems' = orderItems \cup w.items
    /\ products' = [p \in DOMAIN products |->
                      IF p \in DOMAIN w.stock
                        THEN [products[p] EXCEPT !.stock = w.stock[p]]
                        ELSE products[p]]

\* the callback threw: rollback, then the catch block of the handler
ThrowInTx(r) ==
    /\ Persist(TxOutcome(tx[r], FALSE))
    /\ resp' = [resp EXCEPT ![r] = Response(500, "Checkout failed", <<>>)]
    /\ pc' = [pc EXCEPT ![r] = "done"]
    /\ tx' = [tx EXCEPT ![r] = NoTx]
    /\ map' = [map EXCEPT ![r] = NoMap]
    /\ totalCents' = [totalCents EXCEPT ![r] = 0]
    /\ body' = [body EXCEPT ![r] = NoBody]
    /\ UNCHANGED <<reqNo, started, adminOps, adminReq, adminResp>>

\* lines 97-106: the handler up to its first await
StartCheckout(r, b) ==
    /\ pc[r] \in FreePcs
    /\ IF r = 1 THEN TRUE ELSE pc[1] \notin FreePcs   \* the first free one
    /\ started < MaxCheckouts
    /\ started' = started + 1
    /\ reqNo' = [reqNo EXCEPT ![r] = started + 1]
    /\ IF Len(b.items) = 0
         THEN /\ resp' = [resp EXCEPT ![r] = Response(400, "No items", <<>>)]
              /\ pc' = [pc EXCEPT ![r] = "done"]
              /\ body' = [body EXCEPT ![r] = NoBody]
         ELSE /\ resp' = [resp EXCEPT ![r] = NoResp]
              /\ pc' = [pc EXCEPT ![r] = "read"]
              /\ body' = [body EXCEPT ![r] = b]
    /\ UNCHANGED <<products, orders, orderItems, map, totalCents, tx,
                   adminOps, adminReq, adminResp>>

\* lines 106-122: findMany, the validation loop, the total
ReadAndValidate(r) ==
    /\ pc[r] = "read"
    /\ LET m == FindProducts(CartIds(body[r].items))
           v == Validate(body[r].items, m)
       IN  IF v # NoResp
             THEN /\ resp' = [resp EXCEPT ![r] = v]
                  /\ pc' = [pc EXCEPT ![r] = "done"]
                  /\ body' = [body EXCEPT ![r] = NoBody]
                  /\ UNCHANGED <<map, totalCents>>
             ELSE /\ map' = [map EXCEPT ![r] = m]
                  /\ totalCents' = [totalCents EXCEPT ![r] = TotalCents(body[r].items, m)]
                  /\ pc' = [pc EXCEPT ![r] = "txOrder"]
                  /\ UNCHANGED <<resp, body>>
    /\ UNCHANGED <<products, orders, orderItems, tx, reqNo, started,
                   adminOps, adminReq, adminResp>>

\* lines 122-125: the transaction begins, tx.order.create
TxCreateOrder(r) ==
    /\ pc[r] = "txOrder"
    /\ tx' = [tx EXCEPT ![r] =
                [order |-> {[id |-> reqNo[r], userEmail |-> UserEmail(body[r].email),
                             totalCents |-> totalCents[r]]},
                 items |-> {}, stock |-> NoStock, idx |-> 1]]
    /\ pc' = [pc EXCEPT ![r] = "txItem"]
    /\ UNCHANGED <<products, orders, orderItems, body, map, totalCents, resp,
                   reqNo, started, adminOps, adminReq, adminResp>>

\* lines 127-136: tx.orderItem.create for the line tx[r].idx
TxCreateItem(r) ==
    /\ pc[r] = "txItem"
    /\ LET k == tx[r].idx
           i == body[r].items[k]
           p == map[r][i.productId]
       IN  IF p.id \notin DOMAIN products
             THEN ThrowInTx(r)           \* the product row is gone
             ELSE /\ tx' = [tx EXCEPT ![r].items = @ \cup
                              {[id |-> <<reqNo[r], k>>, orderId |-> reqNo[r], productId |-> p.id,
                                quantity |-> i.quantity, priceCents |-> LinePrice(p)]}]
                  /\ pc' = [pc EXCEPT ![r] = "txStock"]
                  /\ UNCHANGED <<products, orders, orderItems, body, map,
                                 totalCents, resp, reqNo, started, adminOps, adminReq, adminResp>>

\* lines 137-141: tx.product.update for the line tx[r].idx, then the next line
TxUpdateStock(r) ==
    /\ pc[r] = "txStock"
    /\ LET k == tx[r].idx
           i == body[r].items[k]
           row == map[r][i.productId]
           p == row.id
           current == IF HoldsLock(r, p) THEN tx[r].stock[p] ELSE products[p].stock
       IN  /\ \A o \in Req \ {r} : ~HoldsLock(o, p)   \* waits for the row lock
           /\ IF p \notin DOMAIN products
                THEN ThrowInTx(r)
                ELSE /\ tx' = [tx EXCEPT
                          ![r].stock = [q \in DOMAIN @ \cup {p} |->
                                          IF q = p THEN StockDecremented(current, row, i.quantity)
                                          ELSE @[q]],
                          ![r].idx = k + 1]
                     /\ pc' = [pc EXCEPT ![r] =
                                 IF k = Len(body[r].items) THEN "txCommit" ELSE "txItem"]
                     /\ UNCHANGED <<products, orders, orderItems, body, map,
                                    totalCents, resp, reqNo, started, adminOps, adminReq, adminResp>>

\* lines 142-145: the callback returns, the transaction commits, res.json
TxCommit(r) ==
    /\ pc[r] = "txCommit"
    /\ Persist(TxOutcome(tx[r], TRUE))
    /\ resp' = [resp EXCEPT ![r] =
                  [status |-> 200, error |-> "", arg |-> <<>>,
                   orderId |-> reqNo[r], totalCents |-> totalCents[r], line |-> 0]]
    /\ pc' = [pc EXCEPT ![r] = "done"]
    /\ tx' = [tx EXCEPT ![r] = NoTx]
    /\ map' = [map EXCEPT ![r] = NoMap]
    /\ totalCents' = [totalCents EXCEPT ![r] = 0]
    /\ body' = [body EXCEPT ![r] = NoBody]
    /\ UNCHANGED <<reqNo, started, adminOps, adminReq, adminResp>>

\* lines 146-149: a statement of the transaction is rejected by the datastore
\* (deadlock victim, transaction timeout, lost connection)
TxAbort(r) ==
    /\ pc[r] \in TxPcs \ {"txOrder"}
    /\ ThrowInTx(r)

Checkout(r, bodies) ==
    \/ \E b \in bodies : StartCheckout(r, b)
    \/ ReadAndValidate(r)
    \/ TxCreateOrder(r)
    \/ TxCreateItem(r)
    \/ TxUpdateStock(r)
    \/ TxCommit(r)
    \/ TxAbort(r)

(***************************************************************************)
(* PUT / DELETE /api/v1/admin/products/:id                                 *)
(*                                                                         *)
(* A field of a JSON body is Undef (absent), Null, or a value: a number    *)
(* <<"num", n>> or a text <<"str", chars>>.                                *)
(***************************************************************************)
Undef == <<>>
Null == <<"null">>
Num(n) == <<"num", n>>
Str(t) == <<"str", t>>

NotNullish(f) == Len(f) = 2                         \* f != null
\* if (f)
Truthy(f) == Len(f) = 2 /\ (IF f[1] = "num" THEN f[2] # 0 ELSE f[2] # <<>>)

DigitValue(c) ==
    CASE c = "0" -> 0 [] c = "1" -> 1 [] c = "2" -> 2 [] c = "3" -> 3 [] c = "4" -> 4
      [] c = "5" -> 5 [] c = "6" -> 6 [] c = "7" -> 7 [] c = "8" -> 8 [] c = "9" -> 9

RECURSIVE DigitsValue(_, _)
DigitsValue(t, acc) ==
    IF t = <<>> THEN acc ELSE DigitsValue(Tail(t), 10 * acc + DigitValue(Head(t)))

\* Number(v) of a number, or of a text of decimal digits ('' gives 0)
NumberOf(f) == IF f[1] = "num" THEN f[2] ELSE DigitsValue(f[2], 0)

EmptyBody ==
    [name |-> Undef, slug |-> Undef, description |-> Undef, priceCents |-> Undef,
     imageUrl |-> Undef, stock |-> Undef, categorySlug |-> Undef]

\* prisma.category.findUnique({ where: { slug } })
FindCategory(slug) == {c \in Categories : c.slug = slug}

\* lines 293-304: the `data` of the update; a field of data is <<>> when the
\* key is not set and <<v>> when it is set to v
DataName(b) == IF NotNullish(b.name) THEN <<b.name[2]>> ELSE <<>>
\* Variant: the slug follows the name whenever a name is given.
DataSlugFromName(b) ==
    IF NotNullish(b.slug)
      THEN <<IF Truthy(b.slug) THEN b.slug[2]
             ELSE makeSlug(IF Truthy(b.name) THEN b.name[2] ELSE <<>>)>>
      ELSE IF NotNullish(b.name) THEN <<makeSlug(b.name[2])>> ELSE <<>>

DataSlug(b) ==
    IF NotNullish(b.slug)
      THEN <<IF Truthy(b.slug) THEN b.slug[2]
             ELSE makeSlug(IF Truthy(b.name) THEN b.name[2] ELSE <<>>)>>
      ELSE <<>>
DataDescription(b) == IF NotNullish(b.description) THEN <<b.description[2]>> ELSE <<>>
DataPriceCents(b) == IF NotNullish(b.priceCents) THEN <<NumberOf(b.priceCents)>> ELSE <<>>
DataImageUrl(b) ==
    IF b.imageUrl # Undef
      THEN <<IF b.imageUrl = Null THEN None ELSE Some(b.imageUrl[2])>>
      ELSE <<>>
DataStock(b) == IF NotNullish(b.stock) THEN <<NumberOf(b.stock)>> ELSE <<>>
DataCategoryId(b) ==
    IF Truthy(b.categorySlug)
      THEN <<(CHOOSE c \in FindCategory(b.categorySlug[2]) : TRUE).id>>
      ELSE <<>>

BuildData(b) ==
    [name |-> DataName(b), slug |-> DataSlug(b), description |-> DataDescription(b),
     priceCents |-> DataPriceCents(b), imageUrl |-> DataImageUrl(b),
     stock |-> DataStock(b), categoryId |-> DataCategoryId(b)]

Updated(old, d) == IF d = <<>> THEN old ELSE d[1]

\* prisma.product.update({ where: { id }, data }) on the row
ApplyData(row, data) ==
    [id |-> row.id,
     name |-> Updated(row.name, data.name),
     slug |-> Updated(row.slug, data.slug),
     description |-> Updated(row.description, data.description),
     priceCents |-> Updated(row.priceCents, data.priceCents),
     imageUrl |-> Updated(row.imageUrl, data.imageUrl),
     stock |-> Updated(row.stock, data.stock),
     categoryId |-> Updated(row.categoryId, data.categoryId),
     createdAt |-> row.createdAt]

\* Product.slug is unique: a write that repeats the slug of another row throws
SlugTaken(id, data) ==
    /\ data.slug # <<>>
    /\ \E q \in DOMAIN products \ {id} : products[q].slug = data.slug[1]

\* OrderItem.productId references Product: a referenced row cannot be deleted
Referenced(id) == \E it \in orderItems : it.productId = id

RowBusy(id) == \E r \in Req : HoldsLock(r, id)

\* lines 290-307
AdminUpdate(id, b) ==
    /\ adminOps < MaxAdminOps
    /\ ~RowBusy(id)                      \* the UPDATE waits for the row lock
    /\ adminOps' = adminOps + 1
    /\ adminReq' = [op |-> "update", id |-> id, body |-> b]
    /\ IF Truthy(b.categorySlug) /\ FindCategory(b.categorySlug[2]) = {}
         THEN /\ adminResp' = [status |-> 400, error |-> "category not found"]
              /\ UNCHANGED products
       ELSE IF id \notin DOMAIN products \/ SlugTaken(id, BuildData(b))
         THEN /\ adminResp' = [status |-> 0, error |-> "throws"]   \* no response
              /\ UNCHANGED products
       ELSE /\ adminResp' = [status |-> 200, error |-> ""]
            /\ products' = [products EXCEPT ![id] = ApplyData(@, BuildData(b))]
    /\ UNCHANGED <<orders, orderItems, pc, body, map, totalCents, tx, resp,
                   reqNo, started>>

\* lines 310-314
AdminDelete(id) ==
    /\ adminOps < MaxAdminOps
    /\ \A r \in Req : ~HoldsLock(r, id) /\ ~HoldsRef(r, id)   \* waits for the row
    /\ adminOps' = adminOps + 1
    /\ adminReq' = [op |-> "delete", id |-> id, body |-> EmptyBody]
    /\ IF id \notin DOMAIN products \/ Referenced(id)
         THEN /\ adminResp' = [status |-> 0, error |-> "throws"]   \* no response
              /\ UNCHANGED products
         ELSE /\ adminResp' = [status |-> 200, error |-> ""]
              /\ products' = [q \in DOMAIN products \ {id} |-> products[q]]
    /\ UNCHANGED <<orders, orderItems, pc, body, map, totalCents, tx, resp,
                   reqNo, started>>

NoAdminReq == [op |-> "", id |-> "", body |-> EmptyBody]
NoAdminResp == [status |-> 0, error |-> ""]

(***************************************************************************)
(* GET /api/v1/products                                                    *)
(*                                                                         *)
(* A query parameter is None or Some(text); a numeric text is written as   *)
(* the number it denotes.                                                  *)
(***************************************************************************)
IsSpace(c) == c = " "

RECURSIVE TrimStart(_)
TrimStart(s) == IF s # <<>> /\ IsSpace(Head(s)) THEN TrimStart(Tail(s)) ELSE s
RECURSIVE TrimEnd(_)
TrimEnd(s) ==
    IF s # <<>> /\ IsSpace(s[Len(s)]) THEN TrimEnd(SubSeq(s, 1, Len(s) - 1)) ELSE s
\* String.prototype.trim
trim(s) == TrimEnd(TrimStart(s))

\* (req.query.x as string | undefined)?.trim()
TrimmedParam(x) == IF x = None THEN None ELSE Some(trim(x[1]))
\* if (x): neither undefined nor ''
Given(x) == x # None /\ x[1] # <<>>

\* { contains: q, mode: 'insensitive' }
ContainsInsensitive(text, q) ==
    LET t == toLowerCase(text)
        n == toLowerCase(q)
    IN  \E i \in 1..(Len(t) - Len(n) + 1) : SubSeq(t, i, i + Len(n) - 1) = n

\* { equals: v, mode: 'insensitive' }
EqualsInsensitive(text, v) == toLowerCase(text) = toLowerCase(v)

CategoryOf(row) == CHOOSE c \in Categories : c.id = row.categoryId

\* lines 40-46: where.OR
MatchesText(row, q) ==
    ContainsInsensitive(row.name, q) \/ ContainsInsensitive(row.description, q)
\* lines 50-55: the category clause
MatchesCategory(row, category) ==
    \/ EqualsInsensitive(CategoryOf(row).slug, category)
    \/ EqualsInsensitive(CategoryOf(row).name, category)

\* lines 40-58: the `where` built from q and category, applied to a row
Where(row, q, category) ==
    IF Given(category)
      THEN (Given(q) => MatchesText(row, q[1])) /\ MatchesCategory(row, category[1])
      ELSE Given(q) => MatchesText(row, q[1])

\* Math.max(1, Number(req.query.page ?? 1))
PageOf(page) == Max(1, IF page = None THEN 1 ELSE page[1])
\* Math.min(24, Math.max(1, Number(req.query.limit ?? 9)))
LimitOf(limit) == Min(24, Max(1, IF limit = None THEN 9 ELSE limit[1]))
SkipOf(page, limit) == (PageOf(page) - 1) * LimitOf(limit)

\* Variant: Math.floor(total / limit)
Floor(total, limit) == total \div limit

\* Math.ceil(total / limit)
Ceil(total, limit) == (total \div limit) + (IF total % limit = 0 THEN 0 ELSE 1)
\* Math.max(1, Math.ceil(total / limit))
PageCount(total, limit) == Max(1, Ceil(total, limit))

\* prisma.product.count({ where })
CountProducts(q, category) ==
    Cardinality({id \in DOMAIN products : Where(products[id], q, category)})

RECURSIVE SortedDesc(_)
\* the rows of the set S, newest first
SortedDesc(S) ==
    IF S = {} THEN <<>>
    ELSE LET newest == CHOOSE x \in S : \A y \in S : y.createdAt <= x.createdAt
         IN  <<newest>> \o SortedDesc(S \ {newest})

\* prisma.product.findMany({ where, orderBy: { createdAt: 'desc' }, skip, take })
FindPage(q, category, skip, take) ==
    LET all == SortedDesc({products[id] : id \in {i \in DOMAIN products :
                                                   Where(products[i], q, category)}})
    IN  SubSeq(all, skip + 1, Min(Len(all), skip + take))

NoListReq == [q |-> None, category |-> None, page |-> None, limit |-> None]
NoListResp == [items |-> <<>>, page |-> 0, limit |-> 0, total |-> 0, pageCount |-> 0]

\* lines 33-38 and 60-69: the parameters are parsed and both queries are sent
ListStart(query) ==
    /\ listPc = "idle"
    /\ listReq' = query
    /\ listPc' = "query"
    /\ UNCHANGED <<listTotal, listItems, listResp>>

\* line 61: the datastore runs the count
ListCount ==
    /\ listPc = "query"
    /\ listTotal = None
    /\ listTotal' = Some(CountProducts(TrimmedParam(listReq.q), TrimmedParam(listReq.category)))
    /\ UNCHANGED <<listPc, listReq, listItems, listResp>>

\* lines 62-68: the datastore runs the findMany
ListFindMany ==
    /\ listPc = "query"
    /\ listItems = None
    /\ listItems' = Some(FindPage(TrimmedParam(listReq.q), TrimmedParam(listReq.category),
                                  SkipOf(listReq.page, listReq.limit),
                                  LimitOf(listReq.limit)))
    /\ UNCHANGED <<listPc, listReq, listTotal, listResp>>

\* lines 71-77: Promise.all resolved, res.json
ListRespond ==
    /\ listPc = "query"
    /\ listTotal # None
    /\ listItems # None
    /\ listResp' = [items |-> listItems[1], page |-> PageOf(listReq.page),
                    limit |-> LimitOf(listReq.limit), total |-> listTotal[1],
                    pageCount |-> PageCount(listTotal[1], LimitOf(listReq.limit))]
    /\ listPc' = "done"
    /\ UNCHANGED <<listReq, listTotal, listItems>>

InitListIdle ==
    /\ listPc = "idle"
    /\ listReq = NoListReq
    /\ listTotal = None
    /\ listItems = None
    /\ listResp = NoListResp

Digits == <<"0", "1", "2", "3", "4", "5", "6", "7", "8", "9">>
RECURSIVE ToText(_)
ToText(n) == IF n < 10 THEN <<Digits[n + 1]>> ELSE ToText(n \div 10) \o <<Digits[(n % 10) + 1]>>

\* the catalog of n products, product i created at time i
CatalogNames == << <<"T", "e", "e">>, <<"C", "a", "p">>, <<"B", "a", "t">> >>
CatalogRow(i) ==
    [id |-> i, name |-> CatalogNames[(i % 3) + 1], slug |-> <<"p">> \o ToText(i),
     description |-> IF i % 2 = 0 THEN <<"a", " ", "t", "e", "x", "t">> ELSE <<"b">>,
     priceCents |-> 100 * i, imageUrl |-> None, stock |-> i,
     categoryId |-> IF i % 4 = 0 THEN "c1" ELSE "c2", createdAt |-> i]
Catalog(n) == [i \in 1..n |-> CatalogRow(i)]

ListQueries ==
    [q : {None, Some(<<" ", "t", "E", " ">>), Some(<<" ">>)},
     category : {None, Some(<<"T", "E", "E", "S">>), Some(<<"c", "a", "p", "s", " ">>)},
     page : {None} \cup {Some(n) : n \in 0..MaxPage},
     limit : {None} \cup {Some(n) : n \in {0, 1, 2, 9, 24, 25}}]

(***************************************************************************)
(* POST /api/v1/auth/register, /login, /logout                             *)
(***************************************************************************)
Clients == {1, 2}
Salts == {"s1", "s2"}

\* bcrypt.hash(password, 10) with the salt drawn for it
BcryptHash(password, salt) == [salt |-> salt, digest |-> <<salt, password>>]
\* bcrypt.compare(password, hash)
BcryptCompare(password, hash) == hash.digest = <<hash.salt, password>>

\* signToken(userId): jwt.sign({ uid: userId }, SECRET, { expiresIn: '7d' })
signToken(userId) == [uid |-> userId, signedWith |-> "SECRET"]

\* prisma.user.findUnique({ where: { email } })
FindUser(email) == {u \in users : u.email = email}

AuthResponse(status, error, user, setCookie) ==
    [status |-> status, error |-> error, user |-> user, setCookie |-> setCookie]
NoAuthResp == AuthResponse(0, "", None, None)
NoAuthReq == [op |-> "", email |-> <<>>, password |-> ""]
PublicUser(u) == Some([id |-> u.id, email |-> u.email, role |-> u.role])

\* Variant: an answer of its own for the unknown email.
UnknownEmailResponseLeaky == AuthResponse(404, "User not found", None, None)

\* what the handlers answer to a failed login
UnknownEmailResponse == AuthResponse(400, "Invalid email or password", None, None)
WrongPasswordResponse == AuthResponse(400, "Invalid email or password", None, None)

\* lines 190-195: the body is checked and the email looked up
RegisterCheck(c, email, password) ==
    /\ authPc[c] = "idle"
    /\ authReq' = [authReq EXCEPT ![c] =
                     [op |-> "register", email |-> email, password |-> password]]
    /\ loginCase' = [loginCase EXCEPT ![c] = ""]
    /\ IF email = <<>> \/ password = ""
         THEN /\ authResp' = [authResp EXCEPT ![c] =
                   AuthResponse(400, "Email and password required", None, None)]
              /\ UNCHANGED authPc
       ELSE IF FindUser(toLowerCase(email)) # {}
         THEN /\ authResp' = [authResp EXCEPT ![c] =
                   AuthResponse(400, "Email already in use", None, None)]
              /\ UNCHANGED authPc
       ELSE /\ authResp' = [authResp EXCEPT ![c] = NoAuthResp]
            /\ authPc' = [authPc EXCEPT ![c] = "create"]
    /\ UNCHANGED <<users, cookie>>

\* lines 197-202: the password is hashed, the user created, the cookie set
RegisterCreate(c, salt) ==
    /\ authPc[c] = "create"
    /\ authPc' = [authPc EXCEPT ![c] = "idle"]
    /\ LET email == toLowerCase(authReq[c].email)
           user == [id |-> email, email |-> email,
                    passwordHash |-> BcryptHash(authReq[c].password, salt),
                    role |-> "USER"]
       IN  IF FindUser(email) # {}
             THEN \* User.email is unique: the create throws, no response
                  UNCHANGED <<users, authResp, cookie>>
             ELSE /\ users' = users \cup {user}
                  /\ cookie' = [cookie EXCEPT ![c] = Some(signToken(user.id))]
                  /\ authResp' = [authResp EXCEPT ![c] =
                       AuthResponse(200, "", PublicUser(user), Some(signToken(user.id)))]
    /\ UNCHANGED <<authReq, loginCase>>

\* which of the three cases a login attempt is, by the User table
LoginCaseOf(email, password) ==
    IF \A u \in users : u.email # toLowerCase(email) THEN "unknown email"
    ELSE IF \E u \in users : /\ u.email = toLowerCase(email)
                             /\ u.passwordHash = BcryptHash(password, u.passwordHash.salt)
      THEN "ok"
    ELSE "wrong password"

\* lines 206-217
Login(c, email, password) ==
    /\ authPc[c] = "idle"
    /\ authReq' = [authReq EXCEPT ![c] =
                     [op |-> "login", email |-> email, password |-> password]]
    /\ loginCase' = [loginCase EXCEPT ![c] = LoginCaseOf(email, password)]
    /\ LET found == FindUser(toLowerCase(email)) IN
       IF found = {}
         THEN /\ authResp' = [authResp EXCEPT ![c] = UnknownEmailResponse]
              /\ UNCHANGED cookie
       ELSE LET user == CHOOSE u \in found : TRUE IN
         IF ~BcryptCompare(password, user.passwordHash)
           THEN /\ authResp' = [authResp EXCEPT ![c] = WrongPasswordResponse]
                /\ UNCHANGED cookie
           ELSE /\ authResp' = [authResp EXCEPT ![c] =
                     AuthResponse(200, "", PublicUser(user), Some(signToken(user.id)))]
                /\ cookie' = [cookie EXCEPT ![c] = Some(signToken(user.id))]
    /\ UNCHANGED <<users, authPc>>

\* lines 227-230
Logout(c) ==
    /\ authPc[c] = "idle"
    /\ authReq' = [authReq EXCEPT ![c] = [op |-> "logout", email |-> <<>>, password |-> ""]]
    /\ authResp' = [authResp EXCEPT ![c] = AuthResponse(200, "", None, None)]
    /\ loginCase' = [loginCase EXCEPT ![c] = ""]
    /\ cookie' = [cookie EXCEPT ![c] = None]
    /\ UNCHANGED <<users, authPc>>

InitAuthIdle ==
    /\ users = {}
    /\ authPc = [c \in Clients |-> "idle"]
    /\ authReq = [c \in Clients |-> NoAuthReq]
    /\ authResp = [c \in Clients |-> NoAuthResp]
    /\ loginCase = [c \in Clients |-> ""]
    /\ cookie = [c \in Clients |-> None]

RegisterEmails == {<<"a", "@", "x">>, <<"A", "@", "x">>, <<>>}
LoginEmails == {<<"a", "@", "x">>, <<"A", "@", "x">>, <<"b", "@", "x">>}
AuthPasswords == {"pw1", "pw2"}

InitShop(rows) ==
    /\ products = rows
    /\ orders = {}
    /\ orderItems = {}
    /\ pc = [r \in Req |-> "idle"]
    /\ body = [r \in Req |-> NoBody]
    /\ map = [r \in Req |-> NoMap]
    /\ totalCents = [r \in Req |-> 0]
    /\ tx = [r \in Req |-> NoTx]
    /\ resp = [r \in Req |-> NoResp]
    /\ reqNo = [r \in Req |-> 0]
    /\ started = 0
    /\ adminOps = 0
    /\ adminReq = NoAdminReq
    /\ adminResp = NoAdminResp

InitCheckout ==
    /\ InitShop(SeedProducts)
    /\ InitAuthIdle
    /\ InitListIdle

\* concurrent checkouts, no admin writes
NextConc == (\E r \in Req : Checkout(r, ConcBodies)) /\ UNCHANGED <<authVars, listVars>>
SpecConc == InitCheckout /\ [][NextConc]_vars

\* checkouts one at a time, no admin writes
NoneInFlight == \A r \in Req : pc[r] \in FreePcs
NextSeq ==
    /\ UNCHANGED <<authVars, listVars>>
    /\ \E r \in Req :
        \/ \E b \in SeqBodies : NoneInFlight /\ StartCheckout(r, b)
        \/ ReadAndValidate(r)
        \/ TxCreateOrder(r)
        \/ TxCreateItem(r)
        \/ TxUpdateStock(r)
        \/ TxCommit(r)
        \/ TxAbort(r)
SpecSeq == InitCheckout /\ [][NextSeq]_vars

\* concurrent checkouts and admin writes
\* the admin changes the price of p1 or deletes p1
AdminRunUpdates == { [EmptyBody EXCEPT !.priceCents = Num(999)] }
Next ==
    /\ UNCHANGED <<authVars, listVars>>
    /\ \/ \E r \in Req : Checkout(r, AdminRunBodies)
       \/ \E b \in AdminRunUpdates : AdminUpdate("p1", b)
       \/ AdminDelete("p1")
Spec == InitCheckout /\ [][Next]_vars

\* admin writes alone, over every shape of body
Present(b, fields) ==
    [f \in DOMAIN EmptyBody |-> IF f \in fields THEN b[f] ELSE Undef]
FullBody ==
    [name |-> Str(<<"B", "i", "g", " ", " ", "C", "a", "p", "!">>),
     slug |-> Str(<<"n", "e", "w">>), description |-> Str(<<"d">>),
     priceCents |-> Num(5), imageUrl |-> Str(<<"u">>), stock |-> Num(5),
     categorySlug |-> Str(<<"c", "a", "p", "s">>)]
AdminBodies ==
    {Present(FullBody, fields) : fields \in SUBSET DOMAIN EmptyBody} \cup
    { [EmptyBody EXCEPT !.name = Null],
      [EmptyBody EXCEPT !.name = Str(<<>>)],
      [EmptyBody EXCEPT !.slug = Str(<<>>)],
      [EmptyBody EXCEPT !.slug = Str(<<>>), !.name = FullBody.name],
      [EmptyBody EXCEPT !.slug = Str(<<"c", "a", "p">>)],
      [EmptyBody EXCEPT !.slug = Null],
      [EmptyBody EXCEPT !.imageUrl = Null],
      [EmptyBody EXCEPT !.priceCents = Str(<<"7", "5">>)],
      [EmptyBody EXCEPT !.priceCents = Null, !.stock = Num(0)],
      [EmptyBody EXCEPT !.categorySlug = Str(<<"n", "o">>), !.stock = Num(5)],
      [EmptyBody EXCEPT !.categorySlug = Str(<<>>)],
      [EmptyBody EXCEPT !.categorySlug = Null, !.description = Str(<<>>)] }
NextAdmin ==
    /\ UNCHANGED <<authVars, listVars>>
    /\ \/ \E id \in ProductIds, b \in AdminBodies : AdminUpdate(id, b)
       \/ \E id \in ProductIds : AdminDelete(id)
SpecAdmin == InitCheckout /\ [][NextAdmin]_vars

\* one listing of a catalog of up to MaxCatalog products
InitList ==
    /\ \E n \in 0..MaxCatalog : InitShop(Catalog(n))
    /\ InitAuthIdle
    /\ InitListIdle
NextList ==
    /\ UNCHANGED <<shopVars, authVars>>
    /\ \/ \E query \in ListQueries : ListStart(query)
       \/ ListCount
       \/ ListFindMany
       \/ ListRespond
SpecList == InitList /\ [][NextList]_vars

\* registrations, logins and logouts of two clients
NextAuth ==
    /\ UNCHANGED <<shopVars, listVars>>
    /\ \E c \in Clients :
         \/ \E email \in RegisterEmails, password \in AuthPasswords \cup {""} :
                RegisterCheck(c, email, password)
         \/ \E salt \in Salts : RegisterCreate(c, salt)
         \/ \E email \in LoginEmails, password \in AuthPasswords : Login(c, email, password)
         \/ Logout(c)
SpecAuth == InitCheckout /\ [][NextAuth]_vars

(***************************************************************************)
(* Properties                                                              *)
(***************************************************************************)
RECURSIVE SumLineTotals(_)
\* sum of priceCents x quantity over a set of OrderItems
SumLineTotals(S) ==
    IF S = {} THEN 0
    ELSE LET it == CHOOSE x \in S : TRUE
         IN  it.priceCents * it.quantity + SumLineTotals(S \ {it})

RECURSIVE SumQuantities(_)
\* sum of quantity over a set of OrderItems
SumQuantities(S) ==
    IF S = {} THEN 0
    ELSE LET it == CHOOSE x \in S : TRUE IN it.quantity + SumQuantities(S \ {it})

ItemsOfOrder(id) == {it \in orderItems : it.orderId = id}
ItemsOfProduct(p) == {it \in orderItems : it.productId = p}

StockNonNegative == \A p \in DOMAIN products : products[p].stock >= 0

DistinctProducts(items) ==
    \A j, k \in 1..Len(items) : j # k => items[j].productId # items[k].productId

Commits(r) == pc[r] = "txCommit" /\ pc'[r] = "done" /\ resp'[r].status = 200

\* C1: under concurrent checkouts no committed decrement drives a stock below
\* zero.  Stated on the step that commits: a checkout whose lines name
\* distinct products, committing in a state where no stock is negative, leaves
\* no stock negative.
C1_ConcurrentCheckoutsKeepStockNonNegative ==
    [][\A r \in Req :
          (Commits(r) /\ DistinctProducts(body[r].items) /\ StockNonNegative)
              => StockNonNegative']_vars

\* C2: of the first two checkouts, both asking for the quantity Q of the same
\* product with Q <= InitStock < 2Q, at most one creates an order and the
\* other is refused with 'Not enough stock for <name>'.  Stated on the step
\* in which a request answers after the other one has succeeded (a datastore
\* failure of the second one, answered 500, aside).
AsksAlone(r, p, q) ==
    /\ body[r].items = <<[productId |-> p, quantity |-> q]>>
    /\ q <= InitStock
    /\ InitStock < 2 * q
SucceededAlone(p, q) ==
    \E o \in orders :
        /\ Cardinality(ItemsOfOrder(o.id)) = 1
        /\ \A it \in ItemsOfOrder(o.id) : it.productId = p /\ it.quantity = q
Responds(r) == pc[r] \notin FreePcs /\ pc'[r] = "done"
C2_AtMostOneOfTwoSucceeds ==
    [][\A r \in Req, p \in ProductIds, q \in Quantities :
          (started = 2 /\ Responds(r) /\ AsksAlone(r, p, q) /\ SucceededAlone(p, q))
          => /\ resp'[r].status # 200
             /\ resp'[r].status # 500 =>
                  /\ resp'[r].status = 400
                  /\ resp'[r].error = "Not enough stock for "
                  /\ resp'[r].arg = products[p].name]_vars

\* C3: checkouts run one at a time never leave a negative stock, whatever the
\* cart, carts that repeat a productId included.
C3_SequentialCheckoutsKeepStockNonNegative ==
    \A p \in DOMAIN products : ~(products[p].stock < 0)

\* C4: a checkout whose cart is empty, or names a product that does not
\* exist, a quantity < 1 or a quantity above the stock on any line, answers
\* 400 and changes nothing: no table changes in the step that refuses it and
\* the request never opens a transaction.
LineValid(i, rows) ==
    /\ i.productId \in DOMAIN rows
    /\ i.quantity >= 1
    /\ i.quantity <= rows[i.productId].stock
CartValid(items, rows) ==
    /\ Len(items) >= 1
    /\ \A k \in 1..Len(items) : LineValid(items[k], rows)
TablesUnchanged ==
    /\ products' = products
    /\ orders' = orders
    /\ orderItems' = orderItems
Starts(r) == reqNo'[r] # reqNo[r]
Validates(r) == pc[r] = "read" /\ pc'[r] # "read"
C4_FailedValidationMutatesNothing ==
    [][\A r \in Req :
          /\ ((Starts(r) /\ body'[r].items = <<>>)
                \/ (Validates(r) /\ ~CartValid(body[r].items, products)))
               => /\ resp'[r].status = 400
                  /\ pc'[r] = "done"
                  /\ tx'[r] = NoTx
                  /\ TablesUnchanged
          /\ (resp'[r].status = 400 /\ resp'[r] # resp[r])
               => pc[r] \notin TxPcs /\ tx[r] = NoTx /\ TablesUnchanged]_vars
C4_Witness ==
    \E r \in Req :
        /\ pc[r] = "done"
        /\ resp[r].status = 400
        /\ resp[r].error = "Product not found: "
        /\ resp[r].arg = <<"p0">>
        /\ resp[r].line = 2
        /\ orders = {} /\ orderItems = {}
        /\ \A p \in DOMAIN products : products[p].stock = InitStock

\* C5: a checkout that leaves its commit phase without having committed
\* answers 500 'Checkout failed' and none of its writes persists: the tables
\* are as before and hold no Order and no OrderItem of that request.
LeavesTx(r) == pc[r] \in TxPcs /\ pc'[r] = "done"
C5_FailedCommitPersistsNothing ==
    [][\A r \in Req :
          LeavesTx(r) =>
            \/ /\ resp'[r].status = 200
               /\ \E o \in orders' : o.id = reqNo[r]
            \/ /\ resp'[r] = Response(500, "Checkout failed", <<>>)
               /\ TablesUnchanged
               /\ \A o \in orders' : o.id # reqNo[r]
               /\ \A it \in orderItems' : it.orderId # reqNo[r]]_vars
C5_Witness ==
    \E r \in Req :
        /\ resp[r].status = 500
        /\ adminReq.op = "delete" /\ adminResp.status = 200
        /\ adminReq.id \notin DOMAIN products
        /\ orders = {} /\ orderItems = {}
        /\ \A p \in DOMAIN products : products[p].stock = InitStock

\* C6: every Order's totalCents is the sum of priceCents x quantity over its
\* OrderItems, whatever the admin did to the prices since validation, and an
\* order has one item per line of its cart.
C6_OrderTotalIsSumOfItems ==
    \A o \in orders :
        /\ o.totalCents = SumLineTotals(ItemsOfOrder(o.id))
        /\ ItemsOfOrder(o.id) # {}
C6_Witness ==
    \E o \in orders : \E it \in ItemsOfOrder(o.id) :
        /\ it.productId \in DOMAIN products
        /\ products[it.productId].priceCents # it.priceCents
        /\ o.totalCents = it.priceCents * it.quantity

\* C7: a listing has at most `limit` items and pageCount = max(1,
\* ceil(total/limit)), limit being the parameter clamped to [1, 24] (9 when
\* absent) and total the number of products that match the filter; 10
\* products with limit 9 give 9 items and pageCount 2 on page 1, 1 item on
\* page 2.
LeastPages(total, limit) == CHOOSE k \in 0..total : k * limit >= total /\ (k = 0 \/ (k - 1) * limit < total)
ClampedLimit(limit) ==
    IF limit = None THEN 9
    ELSE IF limit[1] < 1 THEN 1
    ELSE IF limit[1] > 24 THEN 24
    ELSE limit[1]
Unfiltered == ~Given(TrimmedParam(listReq.q)) /\ ~Given(TrimmedParam(listReq.category))
C7_PageSizeAndPageCount ==
    listPc = "done" =>
        /\ listResp.limit = ClampedLimit(listReq.limit)
        /\ Len(listResp.items) <= listResp.limit
        /\ listResp.total = Cardinality({id \in DOMAIN products :
               Where(products[id], TrimmedParam(listReq.q), TrimmedParam(listReq.category))})
        /\ Unfiltered => listResp.total = Cardinality(DOMAIN products)
        /\ listResp.pageCount = Max(1, LeastPages(listResp.total, listResp.limit))
        /\ (Unfiltered /\ Cardinality(DOMAIN products) = 10 /\ listReq.limit = Some(9))
             => /\ listResp.pageCount = 2
                /\ listResp.page = 1 => Len(listResp.items) = 9
                /\ listResp.page = 2 => Len(listResp.items) = 1
C7_Witness ==
    /\ listPc = "done"
    /\ Unfiltered
    /\ Cardinality(DOMAIN products) = 10
    /\ listReq.limit = Some(9)
    /\ listReq.page = Some(2)
    /\ Len(listResp.items) = 1
    /\ listResp.pageCount = 2

\* C8: a login with an unknown email and a login with a registered email and
\* a wrong password get the same response, and neither sets the cookie.
C8_FailedLoginsIndistinguishable ==
    \A c1, c2 \in Clients :
        (loginCase[c1] = "unknown email" /\ loginCase[c2] = "wrong password")
        => /\ authResp[c1] = authResp[c2]
           /\ authResp[c1].status = 400
           /\ authResp[c1].setCookie = None
           /\ authResp[c2].setCookie = None
C8_Witness ==
    \E c1, c2 \in Clients :
        /\ loginCase[c1] = "unknown email"
        /\ loginCase[c2] = "wrong password"
        /\ authReq[c1].op = "login" /\ authReq[c2].op = "login"
        /\ users # {}

\* C9: an admin update changes, of the product it names, only the fields whose
\* key is in the body (categoryId for the key categorySlug), and no other
\* product; the body {stock: 5} sets the stock to 5 and nothing else.
BodyKeyOf(field) == IF field = "categoryId" THEN "categorySlug" ELSE field
PatchableFields == {"name", "slug", "description", "priceCents", "imageUrl", "stock", "categoryId"}
AdminUpdates == adminOps' # adminOps /\ adminReq'.op = "update"
OnlyStockFive == [EmptyBody EXCEPT !.stock = Num(5)]
C9_UpdateChangesOnlyGivenFields ==
    [][AdminUpdates =>
         /\ DOMAIN products' = DOMAIN products
         /\ \A id \in DOMAIN products :
              /\ id # adminReq'.id => products'[id] = products[id]
              /\ products'[id].id = products[id].id
              /\ products'[id].createdAt = products[id].createdAt
              /\ \A f \in PatchableFields :
                   adminReq'.body[BodyKeyOf(f)] = Undef => products'[id][f] = products[id][f]
         /\ (adminReq'.body = OnlyStockFive /\ adminReq'.id \in DOMAIN products)
              => products'[adminReq'.id] = [products[adminReq'.id] EXCEPT !.stock = 5]]_vars
C9_Witness ==
    /\ adminReq.op = "update"
    /\ adminReq.body = OnlyStockFive
    /\ adminResp.status = 200
    /\ products[adminReq.id] = [SeedProducts[adminReq.id] EXCEPT !.stock = 5]

\* C10: without admin writes, whenever no checkout transaction is open, for
\* every product the initial stock minus the stock is the sum of the
\* quantities of its OrderItems; a checkout that succeeds adds one Order and
\* one OrderItem per line of its cart, and no other step adds any.
NoTxOpen == \A r \in Req : pc[r] \notin TxPcs
StockConserved ==
    \A p \in DOMAIN products :
        InitStock - products[p].stock = SumQuantities(ItemsOfProduct(p))
C10_StockConservation ==
    [][/\ NoTxOpen' => StockConserved'
       /\ \A r \in Req :
            Commits(r) =>
              /\ Cardinality(orders' \ orders) = 1
              /\ Cardinality(orderItems' \ orderItems) = Len(body[r].items)
              /\ \A it \in orderItems' \ orderItems : it.orderId = resp'[r].orderId
              /\ \A p \in DOMAIN products :
                   products[p].stock - products'[p].stock =
                     SumQuantities({it \in orderItems' \ orderItems : it.productId = p})
       /\ (\A r \in Req : ~Commits(r)) => TablesUnchanged]_vars
C10_Witness ==
    /\ NoTxOpen
    /\ Cardinality(orders) = 2
    /\ \E o \in orders : Cardinality(ItemsOfOrder(o.id)) = 2
    /\ \E p \in DOMAIN products : products[p].stock < 0

=============================================================================
